---------------------------- MODULE Spec2Model ----------------------------
(***************************************************************************)
(* Teeko2Player (src/game.py): the 5x5 board, the terminal evaluator       *)
(* game_value, the successor generator succ, the positional heuristic and  *)
(* the depth-bounded alpha-beta search behind make_move.                   *)
(*                                                                         *)
(* A board is a function state[row][col] over 0..4 x 0..4 whose cells hold *)
(* " ", "b" or "r".  A move is a sequence of <<row, col>> pairs: one pair  *)
(* for a placement, <<destination, source>> for a relocation.  Heuristic   *)
(* scores are Python floats; the model counts them exactly, in hundredths  *)
(* (0.05 is 5, a terminal 1 is 100, the search window is -100000..100000). *)
(***************************************************************************)
EXTENDS Integers, Sequences, FiniteSets

VARIABLES board, my_piece, drop_phase_check, turn, ret

vars == <<board, my_piece, drop_phase_check, turn, ret>>

\* ------------------------------------------------------------------ data

Size == 5
Idx == 0..(Size - 1)
pieces == <<"b", "r">>
Piece == {pieces[1], pieces[2]}
Cells == Idx \X Idx

EmptyBoard == [row \in Idx |-> [col \in Idx |-> " "]]

\* self.opp, line 17
opp_of(me) == IF me = pieces[2] THEN pieces[1] ELSE pieces[2]

\* A sequence given as a function, as the explicit list of its elements.
List(s) ==
    LET Any(x) == TRUE
    IN  SelectSeq(s, Any)

\* The cells in the order of "for row in range(5): for col in range(5)".
ScanCells ==
    List([k \in 1..(Size * Size) |-> <<(k - 1) \div Size, (k - 1) % Size>>])

NumPieces(state) == Cardinality({c \in Cells : state[c[1]][c[2]] # " "})
CountOf(state, p) == Cardinality({c \in Cells : state[c[1]][c[2]] = p})

\* place_piece, lines 255-257
place_piece(b, move, piece) ==
    LET cleared == IF Len(move) > 1
                   THEN [b EXCEPT ![move[2][1]][move[2][2]] = " "]
                   ELSE b
    IN  [cleared EXCEPT ![move[1][1]][move[1][2]] = piece]

\* ------------------------------------------------------------ game_value

\* Each family lists its patterns in the order the loops of game_value try
\* them.  A pattern is <<cells, centre>>: four cells that must hold the same
\* piece and, for a box, the centre cell that must be empty (<<>> otherwise).
HorizontalWins ==
    List([k \in 1..10 |->
        LET row == (k - 1) \div 2
            i   == (k - 1) % 2
        IN  << <<<<row, i>>, <<row, i + 1>>, <<row, i + 2>>, <<row, i + 3>>>>, <<>> >>])

VerticalWins ==
    List([k \in 1..10 |->
        LET col == (k - 1) \div 2
            i   == (k - 1) % 2
        IN  << <<<<i, col>>, <<i + 1, col>>, <<i + 2, col>>, <<i + 3, col>>>>, <<>> >>])

DiagonalWins ==
    List([k \in 1..4 |->
        LET row == (k - 1) \div 2
            col == (k - 1) % 2
        IN  << <<<<row, col>>, <<row + 1, col + 1>>, <<row + 2, col + 2>>,
                 <<row + 3, col + 3>>>>, <<>> >>])

AntiDiagonalWins ==
    List([k \in 1..4 |->
        LET row == (k - 1) \div 2
            col == (k - 1) % 2
        IN  << <<<<row, 4 - col>>, <<row + 1, 3 - col>>, <<row + 2, 2 - col>>,
                 <<row + 3, 1 - col>>>>, <<>> >>])

BoxWins ==
    List([k \in 1..9 |->
        LET row == (k - 1) \div 3
            col == (k - 1) % 3
        IN  << <<<<row, col>>, <<row, col + 2>>, <<row + 2, col>>,
                 <<row + 2, col + 2>>>>, <<row + 1, col + 1>> >>])

Family(name) ==
    CASE name = "horizontal" -> HorizontalWins
      [] name = "vertical"   -> VerticalWins
      [] name = "diagonal"   -> DiagonalWins
      [] name = "anti"       -> AntiDiagonalWins
      [] name = "box"        -> BoxWins

\* ScanOrder with the box scan moved to the front.
ScanOrder_boxfirst == <<"box", "horizontal", "vertical", "diagonal", "anti">>

\* lines 278, 284, 290, 296, 302: the order of the five scans
ScanOrder == <<"horizontal", "vertical", "diagonal", "anti", "box">>

At(state, c) == state[c[1]][c[2]]

\* Matches with the comparison of the fourth cell left out.
Matches_three(state, pat) ==
    /\ state[pat[1][1][1]][pat[1][1][2]] # " "
    /\ state[pat[1][1][1]][pat[1][1][2]] = state[pat[1][2][1]][pat[1][2][2]]
    /\ state[pat[1][2][1]][pat[1][2][2]] = state[pat[1][3][1]][pat[1][3][2]]
    /\ (pat[2] # <<>> => state[pat[2][1]][pat[2][2]] = " ")

\* The condition of lines 281, 287, 293, 299 and 305.
Matches(state, pat) ==
    /\ state[pat[1][1][1]][pat[1][1][2]] # " "
    /\ state[pat[1][1][1]][pat[1][1][2]] = state[pat[1][2][1]][pat[1][2][2]]
    /\ state[pat[1][2][1]][pat[1][2][2]] = state[pat[1][3][1]][pat[1][3][2]]
    /\ state[pat[1][3][1]][pat[1][3][2]] = state[pat[1][4][1]][pat[1][4][2]]
    /\ (pat[2] # <<>> => state[pat[2][1]][pat[2][2]] = " ")

\* One family's loop: the value returned at its first match in loop order, 0
\* when the loop ends without one.
ScanFamily(me, state, pats) ==
    IF \A k \in DOMAIN pats :
        \/ state[pats[k][1][1][1]][pats[k][1][1][2]] = " "
        \/ ~Matches(state, pats[k])
    THEN 0
    ELSE LET first == CHOOSE k \in DOMAIN pats :
                          /\ Matches(state, pats[k])
                          /\ \A j \in 1..(k - 1) : ~Matches(state, pats[j])
         IN  IF At(state, pats[first][1][1]) = me THEN 1 ELSE -1

RECURSIVE ScanFamilies(_, _, _, _)
ScanFamilies(me, state, order, f) ==
    IF f > Len(order) THEN 0
    ELSE LET v == ScanFamily(me, state, Family(order[f]))
         IN  IF v # 0 THEN v ELSE ScanFamilies(me, state, order, f + 1)

\* game_value, lines 268-309
game_value(me, state) == ScanFamilies(me, state, ScanOrder, 1)

\* ------------------------------------------------------------------ succ

DropPhaseEnd == 9

\* The (row, col, i, j) tuples in the order of the four nested loops of
\* lines 91-97.
RelocScan ==
    List([k \in 1..(Size * Size * 9) |->
        LET cell == (k - 1) \div 9
            d    == (k - 1) % 9
        IN  <<cell \div Size, cell % Size, (d \div 3) - 1, (d % 3) - 1>>])

\* succ_drop without the deepcopy of line 84: every entry holds the one
\* board, in which all the placements end up.
succ_drop_shared(state, turn_piece) ==
    LET IsEmpty(cell) == state[cell[1]][cell[2]] = " "
        free == SelectSeq(ScanCells, IsEmpty)
        filled == [row \in Idx |-> [col \in Idx |->
                      IF state[row][col] = " " THEN turn_piece ELSE state[row][col]]]
    IN  List([k \in 1..Len(free) |-> << <<free[k]>>, filled >>])

\* lines 80-88
succ_drop(state, turn_piece) ==
    LET IsEmpty(cell) == state[cell[1]][cell[2]] = " "
        Entry(cell) == << <<cell>>, [state EXCEPT ![cell[1]][cell[2]] = turn_piece] >>
        free == SelectSeq(ScanCells, IsEmpty)
    IN  List([k \in 1..Len(free) |-> Entry(free[k])])

\* succ_move without the test of line 97 that the destination is empty.
succ_move_onto(state, turn_piece) ==
    LET Legal(t) ==
            /\ state[t[1]][t[2]] = turn_piece
            /\ (t[3] # 0 \/ t[4] # 0)
            /\ t[1] + t[3] \in Idx
            /\ t[2] + t[4] \in Idx
        Entry(t) ==
            << << <<t[1] + t[3], t[2] + t[4]>>, <<t[1], t[2]>> >>,
               [state EXCEPT ![t[1] + t[3]][t[2] + t[4]] = turn_piece,
                             ![t[1]][t[2]] = " "] >>
        legal == SelectSeq(RelocScan, Legal)
    IN  List([k \in 1..Len(legal) |-> Entry(legal[k])])

\* lines 91-104
succ_move(state, turn_piece) ==
    LET Legal(t) ==
            /\ state[t[1]][t[2]] = turn_piece
            /\ (t[3] # 0 \/ t[4] # 0)
            /\ t[1] + t[3] \in Idx
            /\ t[2] + t[4] \in Idx
            /\ state[t[1] + t[3]][t[2] + t[4]] = " "
        Entry(t) ==
            << << <<t[1] + t[3], t[2] + t[4]>>, <<t[1], t[2]>> >>,
               [state EXCEPT ![t[1] + t[3]][t[2] + t[4]] = turn_piece,
                             ![t[1]][t[2]] = " "] >>
        legal == SelectSeq(RelocScan, Legal)
    IN  List([k \in 1..Len(legal) |-> Entry(legal[k])])

\* succ with the test of line 78 off by one.
succ_late(dpc, state, turn_piece) ==
    IF dpc <= DropPhaseEnd THEN succ_drop(state, turn_piece)
                           ELSE succ_move(state, turn_piece)

\* succ, lines 76-104
succ(dpc, state, turn_piece) ==
    IF dpc < DropPhaseEnd THEN succ_drop(state, turn_piece)
                          ELSE succ_move(state, turn_piece)

\* --------------------------------------------------- heuristic_game_value

HeuristicEnd == 3
weight_a == 5
weight_b == 10
weight_c == 20

\* lines 195-200; the rows and columns of the tuple count from 1
weight ==
    <<<<weight_c, weight_c, weight_c, weight_c, weight_c>>,
      <<weight_c, weight_b, weight_b, weight_b, weight_c>>,
      <<weight_c, weight_b, weight_a, weight_b, weight_c>>,
      <<weight_c, weight_b, weight_b, weight_b, weight_c>>,
      <<weight_c, weight_c, weight_c, weight_c, weight_c>>>>

\* lines 204-207: what one cell adds to heuristic_val
CellTerm(me, cell, w) == IF cell = " " THEN 0 ELSE IF cell = me THEN w ELSE 0 - w

\* lines 203-207: the inner loop over the columns of one row
RowSum(me, r, w) ==
    CellTerm(me, r[0], w[1]) + CellTerm(me, r[1], w[2]) + CellTerm(me, r[2], w[3])
        + CellTerm(me, r[3], w[4]) + CellTerm(me, r[4], w[5])

\* lines 201-207: the outer loop over the rows
SumCells(me, state) ==
    RowSum(me, state[0], weight[1]) + RowSum(me, state[1], weight[2])
        + RowSum(me, state[2], weight[3]) + RowSum(me, state[3], weight[4])
        + RowSum(me, state[4], weight[5])

\* heuristic_game_value, lines 189-209
heuristic_game_value(me, dpc, state) ==
    IF dpc < HeuristicEnd THEN SumCells(me, state) ELSE 0

\* ---------------------------------------------------------------- search

Max(x, y) == IF x >= y THEN x ELSE y
Min(x, y) == IF x <= y THEN x ELSE y

\* A terminal value (1, -1) on the scale of the heuristic's hundredths.
Score(terminal_val) == 100 * terminal_val

RECURSIVE max_value_gen(_, _, _, _, _, _, _)
RECURSIVE min_value_gen(_, _, _, _, _, _, _)
RECURSIVE max_loop(_, _, _, _, _, _, _, _)
RECURSIVE min_loop(_, _, _, _, _, _, _, _, _)

\* max_loop with the comparison of line 132 turned around.
max_loop_inverted(cut, me, dpc, depth, alpha, beta, successors, k) ==
    IF k > Len(successors) THEN alpha
    ELSE LET alpha2 == Max(alpha,
                 min_value_gen(cut, me, dpc, successors[k][2], depth - 1, alpha, beta))
         IN  IF alpha2 <= beta /\ cut THEN beta
             ELSE max_loop(cut, me, dpc, depth, alpha2, beta, successors, k + 1)

\* lines 130-135: the loop from successors[k] on.  cut switches the
\* alpha >= beta test of line 132 on (the code) or off.
max_loop(cut, me, dpc, depth, alpha, beta, successors, k) ==
    IF k > Len(successors) THEN alpha
    ELSE LET alpha2 == Max(alpha,
                 min_value_gen(cut, me, dpc, successors[k][2], depth - 1, alpha, beta))
         IN  IF alpha2 >= beta /\ cut THEN beta
             ELSE max_loop(cut, me, dpc, depth, alpha2, beta, successors, k + 1)

\* lines 156-161: line 157 recurses on state, not on the successor.
min_loop(cut, me, dpc, state, depth, alpha, beta, successors, k) ==
    IF k > Len(successors) THEN beta
    ELSE LET beta2 == Min(beta,
                 max_value_gen(cut, me, dpc, state, depth - 1, alpha, beta))
         IN  IF alpha >= beta2 /\ cut THEN alpha
             ELSE min_loop(cut, me, dpc, state, depth, alpha, beta2, successors, k + 1)

\* lines 121-135
max_value_gen(cut, me, dpc, state, depth, alpha, beta) ==
    LET terminal_val == game_value(me, state)
    IN  IF terminal_val # 0 THEN Score(terminal_val)
        ELSE IF depth = 0 THEN heuristic_game_value(me, dpc, state)
        ELSE max_loop(cut, me, dpc, depth, alpha, beta, succ(dpc, state, me), 1)

\* lines 147-161
min_value_gen(cut, me, dpc, state, depth, alpha, beta) ==
    LET terminal_val == game_value(me, state)
    IN  IF terminal_val # 0 THEN Score(terminal_val)
        ELSE IF depth = 0 THEN heuristic_game_value(me, dpc, state)
        ELSE min_loop(cut, me, dpc, state, depth, alpha, beta,
                      succ(dpc, state, opp_of(me)), 1)

\* max_value, lines 106-135
max_value(me, dpc, state, depth, alpha, beta) ==
    max_value_gen(TRUE, me, dpc, state, depth, alpha, beta)

\* min_value, lines 137-161
min_value(me, dpc, state, depth, alpha, beta) ==
    min_value_gen(TRUE, me, dpc, state, depth, alpha, beta)

\* The two calls of line 53.
TopValue(cut, me, dpc, successor) ==
    min_value_gen(cut, me, dpc, successor, 2, -100000, 100000)

RECURSIVE best_loop(_, _, _, _, _, _, _)
\* lines 52-57: the index of best_move after the loop from successors[k] on.
\* best_val is min_value(best_successor, 2, -1000, 1000), which line 53
\* computes anew at every iteration from the same arguments.
best_loop(cut, me, dpc, successors, k, best, best_val) ==
    IF k > Len(successors) THEN best
    ELSE LET val == TopValue(cut, me, dpc, successors[k][2])
         IN  IF val > best_val
             THEN best_loop(cut, me, dpc, successors, k + 1, k, val)
             ELSE best_loop(cut, me, dpc, successors, k + 1, best, best_val)

\* lines 45-47
next_dpc(me, dpc) ==
    IF me = "b" /\ dpc + 2 = 2 THEN dpc + 1 ELSE dpc + 2

\* lines 49-57, with drop_phase_check already advanced: the move returned,
\* or the IndexError of successors[0] on an empty list.
choose(cut, me, dpc, state) ==
    LET successors == succ(dpc, state, me)
    IN  IF Len(successors) = 0 THEN [err |-> "IndexError"]
        ELSE [move |-> successors[best_loop(cut, me, dpc, successors, 1, 1,
                    TopValue(cut, me, dpc, successors[1][2]))][1]]

\* ------------------------------------------------------------ the object

NoRet == [op |-> "none"]

\* lines 8-17: the board and the counter of a new Teeko2Player, whose piece
\* random.choice picks.
Construct ==
    /\ board = EmptyBoard
    /\ my_piece \in Piece
    /\ ret = NoRet

\* The last occupied cell in scan order, 0 on the empty board.
LastUsed(state) ==
    LET used == {k \in 1..Len(ScanCells) : At(state, ScanCells[k]) # " "}
    IN  IF used = {} THEN 0 ELSE CHOOSE k \in used : \A j \in used : j <= k

\* place_piece (lines 255-257) with a one-cell move, setting up an input
\* board of at most limit pieces.  The cells are filled in scan order, which
\* reaches every such board once.
SetUp(limit) ==
    /\ ret = NoRet
    /\ NumPieces(board) < limit
    /\ \E k \in (LastUsed(board) + 1)..Len(ScanCells), piece \in Piece :
          board' = place_piece(board, <<ScanCells[k]>>, piece)
    /\ UNCHANGED <<my_piece, drop_phase_check, turn, ret>>

\* ------------------------------------------------------ Spec: game_value

MaxPieces == 4

Init ==
    /\ Construct
    /\ drop_phase_check = 0
    /\ turn = "-"

PlacePiece == SetUp(MaxPieces)

\* game_value(self.board)
CallGameValue ==
    /\ ret = NoRet
    /\ ret' = [op |-> "game_value", val |-> game_value(my_piece, board)]
    /\ UNCHANGED <<board, my_piece, drop_phase_check, turn>>

\* place_piece once more, on the centre of a 3x3 square whose four corners
\* hold the same piece: the boards on which the box test of line 305 must
\* fail on its centre.
OccupyCentre ==
    /\ ret = NoRet
    /\ NumPieces(board) <= MaxPieces
    /\ \E k \in 1..Len(BoxWins), piece \in Piece :
          LET pat == BoxWins[k]
          IN  /\ At(board, pat[2]) = " "
              /\ At(board, pat[1][1]) # " "
              /\ \A i \in 2..4 : At(board, pat[1][i]) = At(board, pat[1][1])
              /\ board' = place_piece(board, <<pat[2]>>, piece)
    /\ UNCHANGED <<my_piece, drop_phase_check, turn, ret>>

Next == PlacePiece \/ OccupyCentre \/ CallGameValue

Spec == Init /\ [][Next]_vars

\* ------------------------------- SpecCalls: succ and heuristic_game_value

MaxCallPieces == 2

\* The counter on either side of the tests of lines 78 and 191.
InitCalls ==
    /\ Construct
    /\ drop_phase_check \in {HeuristicEnd - 1, HeuristicEnd,
                             DropPhaseEnd - 1, DropPhaseEnd}
    /\ turn = "-"

PlaceCallPiece == SetUp(MaxCallPieces)

\* succ(self.board, turn_piece)
CallSucc ==
    /\ ret = NoRet
    /\ \E turn_piece \in Piece :
          ret' = [op |-> "succ", turn_piece |-> turn_piece,
                  val |-> succ(drop_phase_check, board, turn_piece)]
    /\ UNCHANGED <<board, my_piece, drop_phase_check, turn>>

\* heuristic_game_value(self.board)
CallHeuristic ==
    /\ ret = NoRet
    /\ ret' = [op |-> "heuristic_game_value",
               val |-> heuristic_game_value(my_piece, drop_phase_check, board)]
    /\ UNCHANGED <<board, my_piece, drop_phase_check, turn>>

NextCalls == PlaceCallPiece \/ CallSucc \/ CallHeuristic

SpecCalls == InitCalls /\ [][NextCalls]_vars

\* --------------------------------------------------- SpecSearch: make_move

RECURSIVE AfterCalls(_, _)
\* drop_phase_check after n calls of make_move on a new object.
AfterCalls(me, n) == IF n = 0 THEN 0 ELSE next_dpc(me, AfterCalls(me, n - 1))

\* The cells the input boards of the search vary, in the order they are filled.
SetupCells == <<<<4, 1>>, <<4, 2>>, <<4, 3>>, <<3, 3>>, <<3, 2>>>>

MaxSetupCells == 3

\* The counter before the first call, in mid placement and before the first
\* relocation.
InitSearch ==
    /\ Construct
    /\ drop_phase_check \in {AfterCalls(my_piece, 0), AfterCalls(my_piece, 3),
                             AfterCalls(my_piece, 4)}
    /\ turn = "-"

\* place_piece (lines 255-257) of either piece on the next setup cell.
PlaceSetupPiece ==
    /\ ret = NoRet
    /\ NumPieces(board) < MaxSetupCells
    /\ NumPieces(board) < Len(SetupCells)
    /\ \E piece \in Piece :
          board' = place_piece(board, <<SetupCells[NumPieces(board) + 1]>>, piece)
    /\ UNCHANGED <<my_piece, drop_phase_check, turn, ret>>

\* make_move(self.board), lines 45-57
MakeMove ==
    /\ ret = NoRet
    /\ drop_phase_check' = next_dpc(my_piece, drop_phase_check)
    /\ ret' = [op |-> "make_move", state |-> board,
               val |-> choose(TRUE, my_piece, drop_phase_check', board)]
    /\ UNCHANGED <<board, my_piece, turn>>

NextSearch == PlaceSetupPiece \/ MakeMove

SpecSearch == InitSearch /\ [][NextSearch]_vars

\* ------------------------------------------------- SpecGame: a whole game

\* opponent_move, lines 224-238: the board after the move, or the exception
\* the validation raises.
opponent_move(state, me, move) ==
    IF /\ Len(move) > 1
       /\ At(state, move[2]) # opp_of(me)
    THEN [err |-> "You don't have a piece there!"]
    ELSE IF /\ Len(move) > 1
            /\ \/ move[2][1] - move[1][1] > 1 \/ move[1][1] - move[2][1] > 1
               \/ move[2][2] - move[1][2] > 1 \/ move[1][2] - move[2][2] > 1
    THEN [err |-> "Illegal move: Can only move to an adjacent space"]
    ELSE IF At(state, move[1]) # " "
    THEN [err |-> "Illegal move detected"]
    ELSE [state |-> place_piece(state, move, opp_of(me))]

\* The number of make_move calls in one game.
MaxCalls == 5

\* The number of moves the opponent chooses among at each of its turns: the
\* first ones in the order succ lists them.
OppChoices == 2

\* A new object at the start of a game; black moves first.
InitGame ==
    /\ Construct
    /\ drop_phase_check = 0
    /\ turn = pieces[1]

\* The agent's turn: make_move(self.board), then place_piece with the move it
\* returned.
AgentMove ==
    /\ turn = my_piece
    /\ game_value(my_piece, board) = 0
    /\ drop_phase_check < AfterCalls(my_piece, MaxCalls)
    /\ drop_phase_check' = next_dpc(my_piece, drop_phase_check)
    /\ LET val == choose(TRUE, my_piece, drop_phase_check', board)
       IN  /\ ret' = [op |-> "make_move", state |-> board, val |-> val]
           /\ IF "move" \in DOMAIN val
              THEN /\ board' = place_piece(board, val.move, my_piece)
                   /\ turn' = opp_of(my_piece)
              ELSE UNCHANGED <<board, turn>>
    /\ UNCHANGED my_piece

\* The opponent's turn: a placement while it has fewer than four pieces on
\* the board, a relocation afterwards, handed to opponent_move.
OpponentMove ==
    /\ turn = opp_of(my_piece)
    /\ game_value(my_piece, board) = 0
    /\ LET moves == IF CountOf(board, turn) < 4
                    THEN succ_drop(board, turn)
                    ELSE succ_move(board, turn)
       IN  \E k \in 1..OppChoices :
              /\ k <= Len(moves)
              /\ LET res == opponent_move(board, my_piece, moves[k][1])
                 IN  /\ "state" \in DOMAIN res
                     /\ board' = res.state
    /\ turn' = my_piece
    /\ UNCHANGED <<my_piece, drop_phase_check, ret>>

NextGame == AgentMove \/ OpponentMove

SpecGame == InitGame /\ [][NextGame]_vars

\* ------------------------------------------------ SpecPlay: legal play

\* The cells the two sides place their pieces on.
PlacementCells ==
    {<<0, 0>>, <<0, 2>>, <<0, 3>>, <<1, 1>>, <<2, 0>>, <<2, 1>>, <<2, 2>>, <<3, 0>>}

\* The relocations followed are those that leave the placement cells, while
\* fewer than this many pieces stand outside them.
MaxAway == 1

Away(state) == Cardinality({c \in Cells \ PlacementCells : At(state, c) # " "})

InitPlay ==
    /\ Construct
    /\ drop_phase_check = 0
    /\ turn = pieces[1]

\* A placement by the side to move, which has fewer than four pieces on a
\* board without a winner: place_piece, lines 255-257, with a one-cell move.
PlayPlacement ==
    /\ ret = NoRet
    /\ game_value(my_piece, board) = 0
    /\ CountOf(board, turn) < 4
    /\ \E c \in PlacementCells :
          /\ At(board, c) = " "
          /\ board' = place_piece(board, <<c>>, turn)
    /\ turn' = opp_of(turn)
    /\ UNCHANGED <<my_piece, drop_phase_check, ret>>

\* A relocation by the side to move once its four pieces are placed, to an
\* adjacent empty cell as succ lists them (lines 91-104): place_piece with a
\* two-cell move.
PlayRelocation ==
    /\ ret = NoRet
    /\ game_value(my_piece, board) = 0
    /\ CountOf(board, turn) = 4
    /\ Away(board) < MaxAway
    /\ \E k \in DOMAIN succ_move(board, turn) :
          /\ succ_move(board, turn)[k][1][1] \notin PlacementCells
          /\ board' = place_piece(board, succ_move(board, turn)[k][1], turn)
    /\ turn' = opp_of(turn)
    /\ UNCHANGED <<my_piece, drop_phase_check, ret>>

\* game_value(self.board) on the board the play has reached
PlayGameValue ==
    /\ ret = NoRet
    /\ ret' = [op |-> "game_value", val |-> game_value(my_piece, board)]
    /\ UNCHANGED <<board, my_piece, drop_phase_check, turn>>

NextPlay == PlayPlacement \/ PlayRelocation \/ PlayGameValue

SpecPlay == InitPlay /\ [][NextPlay]_vars

\* =================================================================== claims

\* The win patterns as the rules state them, by geometry: the four cells
\* origin + i * step, i = 0..3, for the four run directions, and the corners
\* of a 3x3 square.
RunCells(r, col, dr, dc) == {<<r + i * dr, col + i * dc>> : i \in 0..3}
Runs ==
    {L \in {RunCells(cell[1], cell[2], d[1], d[2]) :
                cell \in Cells, d \in {<<0, 1>>, <<1, 0>>, <<1, 1>>, <<1, -1>>}} :
        L \subseteq Cells}
Squares == {cell \in Cells : cell[1] + 2 \in Idx /\ cell[2] + 2 \in Idx}
Corners(o) == {<<o[1], o[2]>>, <<o[1], o[2] + 2>>, <<o[1] + 2, o[2]>>,
               <<o[1] + 2, o[2] + 2>>}
Centre(o) == <<o[1] + 1, o[2] + 1>>

OwnsRun(state, p) == \E L \in Runs : \A cell \in L : At(state, cell) = p
OwnsBox(state, p) ==
    \E o \in Squares :
        /\ \A cell \in Corners(o) : At(state, cell) = p
        /\ At(state, Centre(o)) = " "
Owns(state, p) == OwnsRun(state, p) \/ OwnsBox(state, p)

\* C3: game_value is non-zero exactly when some side owns a run of four (row,
\* column, either diagonal) or the four corners of a 3x3 square with an empty
\* centre; when one side alone owns a pattern the value is 1 for my_piece and
\* -1 for the opponent; the empty board gives 0; corners around an occupied
\* centre are by themselves no win.
C3_GameValue ==
    ret.op = "game_value" =>
        LET mine  == Owns(board, my_piece)
            other == Owns(board, opp_of(my_piece))
        IN  /\ ret.val \in {-1, 0, 1}
            /\ (ret.val # 0) <=> (mine \/ other)
            /\ (mine /\ ~other) => ret.val = 1
            /\ (other /\ ~mine) => ret.val = -1
            /\ (board = EmptyBoard => ret.val = 0)
            /\ ((\A p \in Piece : ~OwnsRun(board, p))
                  /\ (\A o \in Squares :
                        (\E p \in Piece : \A cell \in Corners(o) : At(board, cell) = p)
                            => At(board, Centre(o)) # " ")
                   => ret.val = 0)

\* C3 witness: game_value has returned 0 on a board whose only four-corner
\* square has its centre occupied.
C3_Witness ==
    /\ ret.op = "game_value"
    /\ ret.val = 0
    /\ \E o \in Squares :
          /\ \A cell \in Corners(o) : At(board, cell) = my_piece
          /\ At(board, Centre(o)) = opp_of(my_piece)

\* C4: in placement mode succ returns one entry per empty cell, no cell
\* twice; each move is a single placement on a cell empty in the input, each
\* returned board is the input with only that cell set to the piece, and the
\* board passed in is as it was.
Empties(state) == {cell \in Cells : At(state, cell) = " "}

C4_Placement ==
    (ret.op = "succ" /\ drop_phase_check < 9 /\ Empties(board) # {}) =>
        LET L == ret.val
        IN  /\ Len(L) = Cardinality(Empties(board))
            /\ \A i \in 1..Len(L) :
                  /\ Len(L[i][1]) = 1
                  /\ L[i][1][1] \in Empties(board)
                  /\ L[i][2] = [board EXCEPT ![L[i][1][1][1]][L[i][1][1][2]] =
                                                 ret.turn_piece]
            /\ \A i, j \in 1..Len(L) : L[i][1] = L[j][1] => i = j

\* C4 witness: a placement-mode call on a board that holds pieces.
C4_Witness ==
    /\ ret.op = "succ"
    /\ drop_phase_check < 9
    /\ NumPieces(board) = 2
    /\ Len(ret.val) = 23

\* C5: in relocation mode every entry moves one of the given piece's markers
\* to an empty cell of the grid next to it (a different cell, at most one row
\* and one column away), its board is the input with the source emptied and
\* the destination set, and every such (source, destination) pair of the
\* board appears exactly once.
Slide(state, piece, src, dst) ==
    /\ src \in Cells /\ dst \in Cells
    /\ src # dst
    /\ dst[1] - src[1] \in -1..1
    /\ dst[2] - src[2] \in -1..1
    /\ At(state, src) = piece
    /\ At(state, dst) = " "

C5_Relocation ==
    (ret.op = "succ" /\ drop_phase_check >= 9) =>
        LET L == ret.val
        IN  /\ \A i \in 1..Len(L) :
                  /\ Len(L[i][1]) = 2
                  /\ Slide(board, ret.turn_piece, L[i][1][2], L[i][1][1])
                  /\ L[i][2] = [board EXCEPT ![L[i][1][2][1]][L[i][1][2][2]] = " ",
                                             ![L[i][1][1][1]][L[i][1][1][2]] =
                                                 ret.turn_piece]
            /\ \A src \in {cell \in Cells : At(board, cell) = ret.turn_piece} :
                  \A dst \in {cell \in Cells : At(board, cell) = " "} :
                      Slide(board, ret.turn_piece, src, dst) =>
                          Cardinality({i \in 1..Len(L) : L[i][1] = <<dst, src>>}) = 1

\* C5 witness: a relocation-mode call that returned the three moves of a
\* marker in a corner beside a second marker.
C5_Witness ==
    /\ ret.op = "succ"
    /\ drop_phase_check >= 9
    /\ At(board, <<4, 4>>) = ret.turn_piece
    /\ At(board, <<4, 3>>) # " "
    /\ Len(ret.val) = 2

\* C6 (as claimed): with the heuristic active, the value is the weighted sum
\* with 0.2 at the centre, 0.1 on the ring round it and 0.05 on the border.
ClaimedWeight(cell) ==
    IF cell = <<2, 2>> THEN 20
    ELSE IF cell[1] \in 1..3 /\ cell[2] \in 1..3 THEN 10
    ELSE 5

RECURSIVE ClaimedSum(_, _, _)
ClaimedSum(me, state, k) ==
    IF k > Len(ScanCells) THEN 0
    ELSE (IF At(state, ScanCells[k]) = me THEN ClaimedWeight(ScanCells[k])
          ELSE IF At(state, ScanCells[k]) = " " THEN 0
          ELSE 0 - ClaimedWeight(ScanCells[k]))
         + ClaimedSum(me, state, k + 1)

C6_ClaimedHeuristic ==
    (ret.op = "heuristic_game_value" /\ drop_phase_check < HeuristicEnd)
        => ret.val = ClaimedSum(my_piece, board, 1)

\* C2: the move make_move returns is the move the same recursion returns with
\* the two alpha >= beta cutoffs removed.
C2_PruningKeepsChoice ==
    ret.op = "make_move" =>
        ret.val = choose(FALSE, my_piece, drop_phase_check, ret.state)

RECURSIVE CutTaken(_, _, _, _, _, _, _)
\* The loop of lines 130-135 from successors[k] on leaves through the return
\* of line 133.
CutTaken(me, dpc, depth, alpha, beta, successors, k) ==
    /\ k <= Len(successors)
    /\ LET alpha2 == Max(alpha,
               min_value(me, dpc, successors[k][2], depth - 1, alpha, beta))
       IN  \/ alpha2 >= beta
           \/ CutTaken(me, dpc, depth, alpha2, beta, successors, k + 1)

\* C2 witness: make_move has returned a move that is not its first candidate,
\* and below that move the second call of max_value, made with the beta the
\* first call lowered, ends in the cutoff of line 133.
C2_Witness ==
    /\ ret.op = "make_move"
    /\ "move" \in DOMAIN ret.val
    /\ ret.val.move # succ(drop_phase_check, ret.state, my_piece)[1][1]
    /\ LET s == place_piece(ret.state, ret.val.move, my_piece)
           first == max_value(my_piece, drop_phase_check, s, 1, -100000, 100000)
       IN  /\ game_value(my_piece, s) = 0
           /\ Len(succ(drop_phase_check, s, opp_of(my_piece))) >= 2
           /\ first < 100000
           /\ CutTaken(my_piece, drop_phase_check, 1, -100000, first,
                       succ(drop_phase_check, s, my_piece), 1)

\* ------------------------------------------------------------------- C1

\* The empty cells of state whose filling with me's piece wins for me.
WinningCells(me, state) ==
    {c \in Cells : /\ At(state, c) = " "
                   /\ game_value(me, place_piece(state, <<c>>, me)) = 1}

\* C1: in placement mode, on a board without a winner that has a winning
\* placement for the agent, make_move returns a one-cell move whose board has
\* game_value 1.
C1_WinningPlacement ==
    (/\ ret.op = "make_move"
     /\ drop_phase_check < DropPhaseEnd
     /\ game_value(my_piece, ret.state) = 0
     /\ WinningCells(my_piece, ret.state) # {})
    => /\ "move" \in DOMAIN ret.val
       /\ Len(ret.val.move) = 1
       /\ game_value(my_piece, place_piece(ret.state, ret.val.move, my_piece)) = 1

\* ------------------------------------------------------------------- C7

\* succ returns an empty list at a node make_move visits: at the top level,
\* at the minimizing node of a top-level successor, or at the maximizing node
\* min_value opens below it.
EmptyListVisited(me, dpc, state) ==
    \/ Len(succ(dpc, state, me)) = 0
    \/ \E k \in DOMAIN succ(dpc, state, me) :
          LET successor == succ(dpc, state, me)[k][2]
          IN  /\ game_value(me, successor) = 0
              /\ \/ Len(succ(dpc, successor, opp_of(me))) = 0
                 \/ Len(succ(dpc, successor, me)) = 0

\* C7: a call of make_move that visits a node with an empty successor list
\* ends in an error and returns no move.
C7_EmptyListAborts ==
    (/\ ret.op = "make_move"
     /\ EmptyListVisited(my_piece, drop_phase_check, ret.state))
    => "err" \in DOMAIN ret.val

\* ------------------------------------------------------------------- C8

RECURSIVE ClaimedMinLoop(_, _, _, _, _, _, _)
\* The loop of a minimizing node as C8 states it: each opponent successor is
\* evaluated as a maximizing node at depth - 1, and beta is lowered to the
\* smallest value found (no cutoff is taken).
ClaimedMinLoop(me, dpc, depth, alpha, beta, successors, k) ==
    IF k > Len(successors) THEN beta
    ELSE LET val == max_value(me, dpc, successors[k][2], depth - 1, alpha, beta)
         IN  IF val < beta
             THEN ClaimedMinLoop(me, dpc, depth, alpha, val, successors, k + 1)
             ELSE ClaimedMinLoop(me, dpc, depth, alpha, beta, successors, k + 1)

\* C8: at the minimizing node of the move make_move returned (non-terminal,
\* depth 2, window -1000..1000, where no cutoff can be taken before a value
\* of -1000 is seen), min_value returns the minimum over the opponent's
\* successors of their max_value at depth 1.
C8_MinOverSuccessors ==
    (/\ ret.op = "make_move"
     /\ "move" \in DOMAIN ret.val)
    => LET s == place_piece(ret.state, ret.val.move, my_piece)
       IN  game_value(my_piece, s) = 0
           => min_value(my_piece, drop_phase_check, s, 2, -100000, 100000)
              = ClaimedMinLoop(my_piece, drop_phase_check, 2, -100000, 100000,
                               succ(drop_phase_check, s, opp_of(my_piece)), 1)

\* ------------------------------------------------------------------- C9

\* C9: the board make_move was called on holds at most 8 pieces; its top-level
\* successor list is made of placements when the board holds fewer than 8
\* pieces and of relocations when it holds 8.
C9_PhaseMatchesPieces ==
    ret.op = "make_move" =>
        LET successors == succ(drop_phase_check, ret.state, my_piece)
        IN  /\ NumPieces(ret.state) <= 8
            /\ Len(successors) > 0
            /\ NumPieces(ret.state) < 8 =>
                  \A k \in DOMAIN successors : Len(successors[k][1]) = 1
            /\ NumPieces(ret.state) = 8 =>
                  \A k \in DOMAIN successors : Len(successors[k][1]) = 2

\* C9 witness: the red agent, which moves second, has been called on a board
\* of 8 pieces and has returned a relocation.
C9_Witness ==
    /\ ret.op = "make_move"
    /\ my_piece = "r"
    /\ NumPieces(ret.state) = 8
    /\ "move" \in DOMAIN ret.val
    /\ Len(ret.val.move) = 2

\* ------------------------------------------------------------------ C10

\* Every order of the five scans.
Orders ==
    {order \in [1..5 -> {ScanOrder[i] : i \in 1..5}] :
        \A i, j \in 1..5 : order[i] = order[j] => i = j}

\* C10 as stated: on a board reached by legal play, game_value returns what
\* the scans return in any order of the five families.
C10_AnyOrder ==
    ret.op = "game_value" =>
        \A order \in Orders : ScanFamilies(my_piece, board, order, 1) = ret.val

\* C10 amended: on a board reached by legal play, game_value returns what the
\* scans return in any order of the four line families that is followed by
\* the box scan.
C10_BoxLast ==
    ret.op = "game_value" =>
        \A order \in Orders :
            order[5] = "box" => ScanFamilies(my_piece, board, order, 1) = ret.val

\* C10 witness: game_value has been called on a board reached by legal play
\* on which one side owns a line and the other a box, so that an order with
\* the box scan first returns the other value.
C10_Witness ==
    /\ ret.op = "game_value"
    /\ ret.val # 0
    /\ \E order \in Orders :
          /\ order[5] # "box"
          /\ ScanFamilies(my_piece, board, order, 1) = 0 - ret.val

=============================================================================

